---- MODULE Spec2Model ----
(***************************************************************************)
(* Session security of the revline API: token codec, refresh rotation with *)
(* reuse detection, logout, and the Redis-backed rate limiter.             *)
(*                                                                         *)
(* The shared store (Redis) is modelled per key family: refresh:<jti>      *)
(* records, rate_limit:<path>:<scope>:<id> counters and their :penalty     *)
(* companions.  Every key carries its remaining time-to-live; Tick lets    *)
(* time pass and removes the keys whose time-to-live has run out.  Every   *)
(* await on the store is one atomic step; the code between two awaits runs *)
(* with the step that follows the first of them.                           *)
(***************************************************************************)
EXTENDS Integers, Sequences, FiniteSets, TLC

\* ------------------------------------------------------------------ bounds
NumProcs == 2          \* refresh requests that may be in flight together
MaxMints == 3          \* token pairs (access + refresh) minted in one run
MaxOver == 1           \* requests counted beyond the limit before the window ends
MaxPenalty == 5        \* largest penalty count written
MaxFamilies == 2       \* token families created in one run

\* ------------------------------------------------------- program constants
jwt_expire_minutes == 60
refresh_token_expire_days == 7
auth_rate_limit_times == 5
auth_rate_limit_seconds == 60
refresh_user_rate_limit_times == 10
refresh_rate_limit_seconds == 60
refresh_ip_bucket_times == 60   \* get_refresh_limiter docstring: "IP bucket: 60 requests / 60 seconds"
PenaltyWindows == 10       \* the penalty key lives 10 x the base window
MaxMultiplier == 8         \* the backoff multiplier is capped at 8x

Procs == 1..NumProcs
Emails == {"alice"}
Passwords == {"pw1", "pw2"}     \* what a client may type
Chosen == {"pw1"}               \* what a client registers with

VARIABLES
    now,          \* wall clock, seconds (_now_ts)
    users,        \* credential store: email -> user row (id 0: no row)
    minted,       \* number of token pairs minted so far (uuid4 freshness)
    issued,       \* tokens handed to clients in responses
    refreshRec,   \* store keys refresh:<jti> -> [sub, ttl]   (ttl 0: absent)
    pc,           \* per request slot: position inside refresh()
    req,          \* per request slot: locals of refresh()
    last,         \* the response of the request that completed last
    cookie_mode,  \* settings.auth_cookie_mode
    faulty,       \* whether store operations may raise RedisError
    rotations,    \* history: jti -> number of successful refreshes that presented it
    probe,        \* the token under test of the token-codec specification
    counting,     \* whether `reached` is kept (the endpoint-gate specification)
    reached,      \* history: login bodies entered from the one client IP at this instant
    redis_client, \* rate_limit._redis_client: "none" until init_rate_limiter
    rateCount,    \* store keys rate_limit:<path>:<scope>:<id> -> [n, ttl, volatile]
    penalty,      \* store keys rate_limit:...:penalty -> [n, ttl]
    lpc,          \* per request slot: position inside RateLimiter.__call__
    lreq,         \* per request slot: locals of RateLimiter.__call__
    llast,        \* the outcome of the limiter call that completed last
    hits,         \* history: bucket -> requests counted since the counter was created
    streak,       \* history: bucket -> rejections completed in the penalty lifetime,
                  \*          -1 once a rejection overlapped another or the expiry
    loggedOut,    \* history: jtis whose record a logout deleted successfully
    auth_refresh_strategy,  \* settings.auth_refresh_strategy
    familyRec,    \* store keys family:<family_id> -> user id   (0: absent)
    famRefresh,   \* store keys refresh:<jti>:family:<family_id> -> [value, ttl]
    families,     \* number of family ids generated so far (uuid4 freshness)
    fpc,          \* position inside TokenFamily.revoke_family
    freq,         \* locals of TokenFamily.revoke_family
    tokfam,       \* refresh:<jti>:family:<family_id> records as texts, and the
                  \* TokenFamily token call made last with what it returned
    codec,        \* the result of the create / decode round trip made last
    recent        \* history: requests the bucket check let through now and W/2 ago

limVars == <<redis_client, rateCount, penalty, lpc, lreq, llast, hits, streak, recent>>
modeVars == <<cookie_mode, faulty, probe, counting, auth_refresh_strategy>>
famVars == <<familyRec, famRefresh, families, fpc, freq, tokfam>>
sessVars == <<now, users, minted, issued, refreshRec, pc, req, last, rotations,
              loggedOut, reached>>

vars == <<now, users, minted, issued, refreshRec, pc, req, last, rotations,
          loggedOut, reached, modeVars, famVars, codec, limVars>>

\* ---------------------------------------------------------------- settings
_ACCESS_TTL == jwt_expire_minutes * 60
_REFRESH_TTL == refresh_token_expire_days * 24 * 3600
_access_max_age == jwt_expire_minutes * 60
_refresh_max_age_days == refresh_token_expire_days
_refresh_max_age == refresh_token_expire_days * 24 * 3600
login_refresh_ttl_access == jwt_expire_minutes * 60
\* set_refresh_cookie: max_age=_REFRESH_TTL
set_refresh_cookie_max_age == _REFRESH_TTL
\* login: settings.refresh_token_ttl is a timedelta; int(ttl_val.total_seconds())
login_refresh_ttl == refresh_token_expire_days * 24 * 3600

\* ------------------------------------------------------------- token codec
\* A token is its signed claim set.  sig "ok": signed with _SECRET; "bad":
\* any string jwt.decode refuses; "none": no cookie / header at all.
\* An absent or empty sub or jti claim is 0, an absent type claim "absent".
JtiIds == 1..(2 * MaxMints + 1)
ForeignJti == 2 * MaxMints + 1

_create_token(sub, ttl_seconds, token_type, jti, t) ==
    [sig |-> "ok", sub |-> sub, type |-> token_type, jti |-> jti,
     iat |-> t, exp |-> t + ttl_seconds]

create_refresh_as_access(sub, jti, t) == _create_token(sub, _REFRESH_TTL, "access", jti, t)

create_access(sub, jti, t) == _create_token(sub, _ACCESS_TTL, "access", jti, t)
create_refresh(sub, jti, t) == _create_token(sub, _REFRESH_TTL, "refresh", jti, t)

NoCookie == [sig |-> "none", sub |-> 0, type |-> "absent", jti |-> 0, iat |-> 0, exp |-> 0]
Garbage == [sig |-> "bad", sub |-> 0, type |-> "absent", jti |-> 0, iat |-> 0, exp |-> 0]

\* jwt.decode: signature check, then exp against the clock.
decode_token(tok, t) ==
    IF tok.sig = "ok" /\ tok.exp > t THEN "ok" ELSE "Invalid token"

verify_access_token_stateful(tok, t) ==
    IF decode_token(tok, t) # "ok" THEN "Invalid token"
    ELSE IF tok.type # "absent" /\ tok.type # "access" THEN "Wrong token type"
    ELSE IF tok.sub = 0 THEN "Invalid token"
    ELSE IF tok.jti + 1 \in JtiIds /\ refreshRec[tok.jti + 1].ttl = 0
         THEN "Session revoked"
    ELSE "ok"

verify_access_token_untyped(tok, t) ==
    IF decode_token(tok, t) # "ok" THEN "Invalid token"
    ELSE IF tok.sub = 0 THEN "Invalid token"
    ELSE "ok"

\* verify_access_token: "ok" or the detail of the 401 it raises.
verify_access_token(tok, t) ==
    IF decode_token(tok, t) # "ok" THEN "Invalid token"
    ELSE IF tok.type # "absent" /\ tok.type # "access" THEN "Wrong token type"
    ELSE IF tok.sub = 0 THEN "Invalid token"
    ELSE "ok"

\* ------------------------------------------------------ credential verifier
hash_password(pw) == <<"bcrypt", pw>>
verify_password(pw, pw_hash) == pw_hash = <<"bcrypt", pw>>

NoUser == [id |-> 0, password_hash |-> <<"bcrypt", "">>]
UserIds == {users[e].id : e \in {x \in Emails : users[x].id # 0}}

\* ------------------------------------------------------------------- store
NoRec == [sub |-> 0, ttl |-> 0]
StoreOutcomes == IF faulty THEN BOOLEAN ELSE {TRUE}

\* uuid4: pair k gets access jti 2k-1 and refresh jti 2k, never reused.
AccessJti(k) == 2 * k - 1
RefreshJti(k) == 2 * k

\* Validly signed tokens that _create_token did not make (claims missing).
Foreign ==
    { [sig |-> "ok", sub |-> s, type |-> ty, jti |-> j, iat |-> 0,
       exp |-> e] :
        s \in {0, 1}, ty \in {"absent", "access", "refresh"}, j \in {0, ForeignJti},
        e \in {_ACCESS_TTL, _REFRESH_TTL} }

\* What a client can put into the cookie or the Authorization header.
Cookies == {NoCookie, Garbage} \cup issued

\* ---------------------------------------------------------------- responses
Response(op, status, detail, tok) ==
    [op |-> op, status |-> status, detail |-> detail,
     refresh |-> 0, in_body |-> FALSE, cookie |-> "keep", why |-> "",
     late |-> FALSE, fresh |-> FALSE, dead |-> FALSE, stored_sub |-> 0]

NoResponse == Response("none", 0, "", NoCookie)

\* Depends(get_auth_limiter) / Depends(get_refresh_limiter): FastAPI calls the
\* getter and injects the RateLimiter it returns; nothing awaits the limiter,
\* so resolving the dependency performs no store operation.
Depends_limiter == UNCHANGED limVars

\* ---------------------------------------------------------------- register
register(email, pw) ==
    /\ Depends_limiter
    /\ IF users[email].id # 0
       THEN /\ last' = Response("register", 409, "Email already registered", NoCookie)
            /\ UNCHANGED users
       ELSE /\ users' = [users EXCEPT ![email] =
                           [id |-> Cardinality(UserIds) + 1,
                            password_hash |-> hash_password(pw)]]
            /\ last' = Response("register", 201, "", NoCookie)
    /\ UNCHANGED <<now, minted, issued, refreshRec, pc, req, rotations, loggedOut,
                   reached, modeVars, famVars, codec>>

\* ------------------------------------------------------------------- login
\* Slots that passed the reuse check and will mint a pair.
Reserved == Cardinality({p \in Procs : pc[p] = "delete"})

login(email, pw, ok) ==
    /\ Depends_limiter
    /\ counting => reached <= auth_rate_limit_times
    /\ LET user == users[email]
           sub == user.id
           access_token == create_access(sub, AccessJti(minted + 1), now)
           refresh_token == create_refresh(sub, RefreshJti(minted + 1), now)
       IN IF user.id = 0 \/ ~verify_password(pw, user.password_hash)
          THEN /\ last' = Response("login", 401, "Invalid credentials", NoCookie)
               /\ UNCHANGED <<minted, issued, refreshRec>>
          ELSE /\ minted + Reserved < MaxMints
               /\ minted' = minted + 1
               /\ IF cookie_mode
                  THEN IF ok
                       THEN /\ refreshRec' = [refreshRec EXCEPT ![refresh_token.jti] =
                                                [sub |-> sub, ttl |-> login_refresh_ttl]]
                            /\ issued' = issued \cup {access_token, refresh_token}
                            /\ last' = [Response("login", 200, "", NoCookie) EXCEPT
                                          !.refresh = refresh_token.jti,
                                          !.cookie = "set"]
                       ELSE /\ last' = Response("login", 500, "RedisError", NoCookie)
                            /\ UNCHANGED <<issued, refreshRec>>
                  ELSE /\ issued' = issued \cup {access_token, refresh_token}
                       /\ last' = [Response("login", 200, "", NoCookie) EXCEPT
                                     !.refresh = refresh_token.jti,
                                     !.in_body = TRUE]
                       /\ UNCHANGED refreshRec
    /\ reached' = IF counting THEN reached + 1 ELSE reached
    /\ UNCHANGED <<now, users, pc, req, rotations, loggedOut, modeVars, famVars, codec>>

\* ---------------------------------------------------------------------- me
me(tok) ==
    /\ LET v == verify_access_token(tok, now)
       IN last' = IF tok.sig = "none"
                     THEN Response("me", 401, "Missing bearer token", tok)
                  ELSE IF v # "ok" THEN Response("me", 401, v, tok)
                  ELSE IF tok.sub \notin UserIds
                     THEN Response("me", 401, "User not found or session invalid", tok)
                  ELSE Response("me", 200, "", tok)
    /\ UNCHANGED <<now, users, minted, issued, refreshRec, pc, req, rotations,
                   loggedOut, reached, modeVars, famVars, codec, limVars>>

\* verify_access_token resolved as a dependency (get_bearer_token first).
VerifyAccess(tok) ==
    /\ LET v == verify_access_token(tok, now)
       IN last' = IF tok.sig = "none"
                     THEN Response("verify", 401, "Missing bearer token", tok)
                  ELSE IF v # "ok" THEN Response("verify", 401, v, tok)
                  ELSE Response("verify", 200, "", tok)
    /\ UNCHANGED <<now, users, minted, issued, refreshRec, pc, req, rotations,
                   loggedOut, reached, modeVars, famVars, codec, limVars>>

\* ----------------------------------------------------------------- refresh
\* The checks of refresh() before it reads the store: "ok" or the 401 detail.
refresh_precheck(cookie, t) ==
    IF cookie.sig = "none" THEN "No refresh cookie"
    ELSE IF decode_token(cookie, t) # "ok" THEN "Invalid token"
    ELSE IF cookie.sub = 0 THEN "Invalid token"
    ELSE IF cookie.type # "refresh" THEN "Wrong token type"
    ELSE IF cookie.jti = 0 THEN "Invalid refresh token"
    ELSE "ok"

reuse_check_presence_only(stored, sub) ==
    IF stored.ttl = 0 THEN "Token already used or revoked" ELSE "ok"

reuse_check_sub_only(stored, sub) ==
    IF stored.sub # sub THEN "Invalid token" ELSE "ok"

\* The reuse check on the value r.get returned: "ok" or the 401 detail.
reuse_check(stored, sub) ==
    IF stored.ttl = 0 THEN "Token already used or revoked"
    ELSE IF stored.sub # sub THEN "Invalid token"
    ELSE "ok"

NoReq == [cookie |-> NoCookie, late |-> FALSE, fresh |-> FALSE, dead |-> FALSE,
          stored_sub |-> 0, access_token |-> NoCookie, refresh_token |-> NoCookie]

Tag(resp, r) == [resp EXCEPT !.late = r.late, !.fresh = r.fresh, !.dead = r.dead,
                             !.stored_sub = r.stored_sub]

InFlight(j) == \E q \in Procs : pc[q] # "idle" /\ req[q].cookie.jti = j

\* History flags of a request, taken when it arrives:
\*   late  - a refresh presenting the same jti has already completed with 200,
\*           and the token's exp has not passed
\*   dead  - a logout presenting the same refresh jti has deleted its record
\*   stored_sub - what r.get returned to the request (0: nothing, or not read)
\*   fresh - a refresh token of a 200 response (record stored), not expired, not
\*           logged out and not accepted by any refresh so far
Arrival(cookie) ==
    [NoReq EXCEPT
       !.cookie = cookie,
       !.late = cookie.jti \in JtiIds /\ rotations[cookie.jti] > 0 /\ cookie.exp > now,
       !.dead = cookie.jti \in loggedOut,
       !.fresh = /\ cookie \in issued /\ cookie.type = "refresh" /\ cookie_mode
                 /\ cookie.exp > now
                 /\ cookie.jti \notin loggedOut
                 /\ rotations[cookie.jti] = 0
                 /\ ~InFlight(cookie.jti)]

redis_error_swallowed(op, cookie, r) ==
    [Tag(Response("refresh", 200, "", cookie), r) EXCEPT !.cookie = "set", !.why = op]

\* An await on the store raises inside refresh(): nothing catches it, the
\* request ends 500 before set_refresh_cookie and the return statement.
redis_error(op, cookie, r) ==
    [Tag(Response("refresh", 500, "RedisError", cookie), r) EXCEPT !.why = op]

on_reuse_revoke_all(store, sub) ==
    [j \in JtiIds |-> IF store[j].sub = sub THEN NoRec ELSE store[j]]

\* if not stored_sub: the strategy is logged ("Nuclear strategy: token reuse
\* detected, session invalidated"); no store call is made before the 401.
on_reuse_detected(store, sub) == store

on_subject_mismatch_consume(store, jti) == [store EXCEPT ![jti] = NoRec]

\* if stored_sub.decode("utf-8") != sub: logger.error and 401, ahead of the
\* r.delete(redis_key) that consumes the record.
on_subject_mismatch(store, jti) == store

\* Request arrives; cookie checks; stored_sub = await r.get(redis_key); reuse check.
\* A request takes the lowest free slot (slots are names, not program state).
RefreshGet(p, cookie, ok) ==
    /\ pc[p] = "idle"
    /\ \A q \in Procs : q < p => pc[q] # "idle"
    /\ Depends_limiter
    /\ LET pre == refresh_precheck(cookie, now)
           stored == IF pre = "ok" THEN refreshRec[cookie.jti] ELSE NoRec
           chk == reuse_check(stored, cookie.sub)
           r == [Arrival(cookie) EXCEPT
                   !.stored_sub = IF pre = "ok" /\ ok /\ stored.ttl > 0
                                     THEN stored.sub ELSE 0]
       IN IF pre # "ok"
          THEN /\ last' = Tag(Response("refresh", 401, pre, cookie), r)
               /\ UNCHANGED <<pc, req>>
          ELSE IF ~ok
          THEN /\ last' = redis_error("get failed", cookie, r)
               /\ UNCHANGED <<pc, req>>
          ELSE IF chk # "ok"
          THEN /\ last' = Tag(Response("refresh", 401, chk, cookie), r)
               /\ UNCHANGED <<pc, req>>
          ELSE /\ minted + Reserved < MaxMints
               /\ pc' = [pc EXCEPT ![p] = "delete"]
               /\ req' = [req EXCEPT ![p] = r]
               /\ UNCHANGED last
    /\ refreshRec' = IF /\ refresh_precheck(cookie, now) = "ok" /\ ok
                        /\ refreshRec[cookie.jti].ttl = 0
                     THEN on_reuse_detected(refreshRec, cookie.sub)
                     ELSE IF /\ refresh_precheck(cookie, now) = "ok" /\ ok
                             /\ refreshRec[cookie.jti].sub # cookie.sub
                     THEN on_subject_mismatch(refreshRec, cookie.jti)
                     ELSE refreshRec
    /\ UNCHANGED <<now, users, minted, issued, rotations, loggedOut,
                   reached, modeVars, famVars, codec>>

\* await r.delete(redis_key); then the new pair is minted.
RefreshDelete(p, ok) ==
    /\ pc[p] = "delete"
    /\ LET cookie == req[p].cookie
       IN IF ok
          THEN /\ refreshRec' = [refreshRec EXCEPT ![cookie.jti] = NoRec]
               /\ minted' = minted + 1
               /\ req' = [req EXCEPT
                    ![p].access_token = create_access(cookie.sub, AccessJti(minted + 1), now),
                    ![p].refresh_token = create_refresh(cookie.sub, RefreshJti(minted + 1), now)]
               /\ pc' = [pc EXCEPT ![p] = "setex"]
               /\ UNCHANGED last
          ELSE /\ last' = redis_error("delete failed", cookie, req[p])
               /\ pc' = [pc EXCEPT ![p] = "idle"]
               /\ req' = [req EXCEPT ![p] = NoReq]
               /\ UNCHANGED <<refreshRec, minted>>
    /\ UNCHANGED <<now, users, issued, rotations, loggedOut, reached, modeVars, famVars, codec,
                   limVars>>

on_setex_failure_rollback(store, cookie) ==
    [store EXCEPT ![cookie.jti] = [sub |-> cookie.sub, ttl |-> cookie.exp - now]]

\* r.setex raises: refresh() has no try / except, the exception leaves the
\* handler with the store as the delete left it.
on_setex_failure(store, cookie) == store

\* await r.setex(f"refresh:{refresh_jti}", ttl, sub); cookie; response.
RefreshSetex(p, ok) ==
    /\ pc[p] = "setex"
    /\ LET cookie == req[p].cookie
           refresh_token == req[p].refresh_token
           access_token == req[p].access_token
       IN IF ok
          THEN /\ refreshRec' = [refreshRec EXCEPT ![refresh_token.jti] =
                                   [sub |-> cookie.sub, ttl |-> _refresh_max_age]]
               /\ issued' = issued \cup {access_token, refresh_token}
               /\ rotations' = [rotations EXCEPT ![cookie.jti] = @ + 1]
               /\ last' = [Tag(Response("refresh", 200, "", cookie), req[p]) EXCEPT
                             !.refresh = refresh_token.jti,
                             !.cookie = "set"]
          ELSE /\ last' = redis_error("setex failed", cookie, req[p])
               /\ refreshRec' = on_setex_failure(refreshRec, cookie)
               /\ UNCHANGED <<issued, rotations>>
    /\ pc' = [pc EXCEPT ![p] = "idle"]
    /\ req' = [req EXCEPT ![p] = NoReq]
    /\ UNCHANGED <<now, users, minted, loggedOut, reached, modeVars, famVars, codec, limVars>>

\* ------------------------------------------------------------------ logout
logout_revokes_never(cookie, t) == FALSE

\* Whether logout() reaches r.delete: a cookie that decodes and carries a jti.
logout_revokes(cookie, t) ==
    cookie.sig # "none" /\ decode_token(cookie, t) = "ok" /\ cookie.jti # 0

logout_response_raises(cookie, t, ok) ==
    IF cookie.sig # "none" /\ decode_token(cookie, t) = "ok" /\ cookie.jti # 0 /\ ~ok
    THEN Response("logout", 500, "RedisError", cookie)
    ELSE [Response("logout", 200, "ok", cookie) EXCEPT !.cookie = "clear"]

\* decode_token raising, a missing jti and r.delete raising are all swallowed;
\* clear_refresh_cookie and {"ok": True} follow unconditionally.
logout_response(cookie, t, ok) ==
    [Response("logout", 200, "ok", cookie) EXCEPT
       !.cookie = "clear",
       !.why = IF cookie.sig = "none" THEN "no cookie"
               ELSE IF decode_token(cookie, t) # "ok" THEN "undecodable"
               ELSE IF cookie.jti = 0 THEN "no jti"
               ELSE IF ~ok THEN "delete failed"
               ELSE "revoked"]

logout(cookie, ok) ==
    /\ refreshRec' = IF logout_revokes(cookie, now) /\ ok
                        THEN [refreshRec EXCEPT ![cookie.jti] = NoRec]
                        ELSE refreshRec
    /\ loggedOut' = IF /\ cookie.sig = "ok" /\ cookie.exp > now
                       /\ cookie.type = "refresh" /\ cookie.jti # 0 /\ ok
                       THEN loggedOut \cup {cookie.jti} ELSE loggedOut
    /\ last' = logout_response(cookie, now, ok)
    /\ UNCHANGED <<now, users, minted, issued, pc, req, rotations, reached, modeVars, famVars, codec,
                   limVars>>

\* -------------------------------------------------------------------- time
\* Redis drops a key once its time-to-live has run out.
Expire(rec, d) == IF rec.ttl > d THEN [rec EXCEPT !.ttl = @ - d] ELSE NoRec

\* The instants the model looks at: start, access expiry, refresh expiry.
Clock == {0, _ACCESS_TTL, _REFRESH_TTL}

Tick(t) ==
    /\ t > now
    /\ now' = t
    /\ refreshRec' = [j \in JtiIds |-> Expire(refreshRec[j], t - now)]
    /\ reached' = 0
    /\ UNCHANGED <<users, minted, issued, pc, req, last, rotations, loggedOut,
                   modeVars, famVars, codec, limVars>>

\* ------------------------------------------------------------ rate limiter
IPs == {"ip1"}
Callers == {1, 2}       \* limiter calls that may be in flight together
RefreshIPs == {"ip1", "ip2"}    \* client addresses of the refresh requests
RefreshUsers == {"1"}           \* the sub claim of the refresh cookie, as text
Keys == {<<"/auth/login", "ip", ip>> : ip \in IPs}
        \cup {<<"/auth/refresh", "ip", ip>> : ip \in RefreshIPs}
        \cup {<<"/auth/refresh", "user", u>> : u \in RefreshUsers}

NoCount == [n |-> 0, ttl |-> 0, volatile |-> FALSE]
NoPenalty == [n |-> 0, ttl |-> 0]

\* RateLimiter(times, seconds, scope, user_extractor)
RateLimiter(times, seconds, scope, has_extractor) ==
    [times |-> times, seconds |-> seconds, scope |-> scope, user_extractor |-> has_extractor]

get_auth_limiter ==
    RateLimiter(auth_rate_limit_times, auth_rate_limit_seconds, "ip", FALSE)

\* RateLimiter(times=user_times, seconds=seconds, scope="both",
\*             user_extractor=extract_user_from_cookie)
get_refresh_limiter ==
    RateLimiter(refresh_user_rate_limit_times, refresh_rate_limit_seconds, "both", TRUE)

\* A request as the limiter sees it: url path, client ip (get_client_ip) and
\* the user id the extractor finds ("" when it finds none).
Requests == [path : {"/auth/login"}, ip : IPs, user : {""}]

\* Refresh requests: extract_user_from_cookie gives the cookie's sub, or None
\* ("") without a cookie or with one that does not decode.  The first address
\* sends requests with and without the user's cookie, the others with it.
RefreshRequests ==
    [path : {"/auth/refresh"}, ip : {"ip1"}, user : RefreshUsers \cup {""}]
    \cup [path : {"/auth/refresh"}, ip : RefreshIPs \ {"ip1"}, user : RefreshUsers]

keys_to_check_ip_only(self, request) ==
    IF self.scope \in {"ip", "both"}
    THEN <<(<<request.path, "ip", request.ip>>)>> ELSE <<>>

keys_to_check(self, request) ==
    (IF self.scope \in {"ip", "both"}
        THEN <<(<<request.path, "ip", request.ip>>)>> ELSE <<>>)
    \o (IF self.scope \in {"user", "both"} /\ self.user_extractor /\ request.user # ""
        THEN <<(<<request.path, "user", request.user>>)>> ELSE <<>>)

\* Redis INCR, EXPIRE, GET of an integer, SETEX.
INCR(c) == IF c.n = 0 THEN [n |-> 1, ttl |-> 0, volatile |-> FALSE]
           ELSE [c EXCEPT !.n = @ + 1]
EXPIRE(c, seconds) == IF c.n = 0 THEN c ELSE [c EXCEPT !.ttl = seconds, !.volatile = TRUE]
ExpireCount(c, d) == IF c.volatile /\ c.ttl <= d THEN NoCount
                     ELSE IF c.volatile THEN [c EXCEPT !.ttl = @ - d] ELSE c
ExpirePenalty(c, d) == IF c.ttl <= d THEN NoPenalty ELSE [c EXCEPT !.ttl = @ - d]

RECURSIVE Pow2(_)
Pow2(n) == IF n = 0 THEN 1 ELSE 2 * Pow2(n - 1)
Min(a, b) == IF a < b THEN a ELSE b

backoff_multiplier_uncapped(penalty_count) == Pow2(penalty_count)

\* multiplier = min(2**penalty_count, 8); retry_after = self.seconds * multiplier
backoff_multiplier(penalty_count) == Min(Pow2(penalty_count), MaxMultiplier)
retry_after(self, penalty_count) == self.seconds * backoff_multiplier(penalty_count)

limit_exceeded_ge(self, current) == current >= self.times

limit_exceeded_penalised(self, current) ==
    current > self.times \/ \E key \in Keys : penalty[key].n > 0

\* if current > self.times
limit_exceeded(self, current) == current > self.times

\* History of the requests let through after their buckets were counted, kept
\* when `counting`: at this instant (cur) and half a window ago (prev).
NoRecent == [cur |-> 0, prev |-> 0]
Allowed == IF counting THEN [recent EXCEPT !.cur = @ + 1] ELSE recent

NoLimReq == [self |-> get_auth_limiter, keys |-> <<>>, i |-> 0, current |-> 0,
             penalty_count |-> 0, k |-> 0, seen |-> 0, counts |-> <<>>, user |-> ""]

Outcome(status, r, retry) ==
    [status |-> status, retry_after |-> retry, k |-> r.k, p |-> r.penalty_count,
     seen |-> r.seen, failed |-> "", counts |-> r.counts, user |-> r.user,
     bucket |-> IF status = 429 /\ r.keys # <<>> THEN r.keys[r.i][2] ELSE ""]

NoOutcome == Outcome(0, NoLimReq, 0)

init_rate_limiter ==
    /\ redis_client = "none"
    /\ redis_client' = "ready"
    /\ UNCHANGED <<rateCount, penalty, lpc, lreq, llast, hits, streak, recent>>
    /\ UNCHANGED <<now, users, minted, issued, refreshRec, pc, req, last, rotations,
                   loggedOut, reached, modeVars, famVars, codec>>

\* The limiter is entered: client check, bucket keys.
LimCall(p, self, request) ==
    /\ lpc[p] = "idle"
    /\ \A q \in Callers : q < p => lpc[q] # "idle"
    /\ LET keys == keys_to_check(self, request)
           r == [NoLimReq EXCEPT !.self = self, !.keys = keys, !.i = 1,
                                 !.user = request.user]
       IN IF redis_client = "none" \/ keys = <<>>
          THEN /\ llast' = [Outcome(200, r, 0) EXCEPT
                              !.failed = IF redis_client = "none" THEN "no client" ELSE ""]
               /\ UNCHANGED <<lpc, lreq, recent>>
          ELSE /\ lpc' = [lpc EXCEPT ![p] = "incr"]
               /\ lreq' = [lreq EXCEPT ![p] = r]
               /\ UNCHANGED <<llast, recent>>
    /\ UNCHANGED <<redis_client, rateCount, penalty, hits, streak>>
    /\ UNCHANGED <<now, users, minted, issued, refreshRec, pc, req, last, rotations,
                   loggedOut, reached, modeVars, famVars, codec>>

\* The request is let through by this bucket: next bucket, or return None.
Pass(p, r) ==
    IF r.i < Len(r.keys)
    THEN /\ lpc' = [lpc EXCEPT ![p] = "incr"]
         /\ lreq' = [lreq EXCEPT ![p] = [r EXCEPT !.i = @ + 1]]
         /\ UNCHANGED <<llast, recent>>
    ELSE /\ lpc' = [lpc EXCEPT ![p] = "idle"]
         /\ lreq' = [lreq EXCEPT ![p] = NoLimReq]
         /\ llast' = Outcome(200, r, 0)
         /\ recent' = Allowed

FailClosed(p, r) ==
    /\ lpc' = [lpc EXCEPT ![p] = "idle"]
    /\ lreq' = [lreq EXCEPT ![p] = NoLimReq]
    /\ llast' = [Outcome(429, r, r.self.seconds) EXCEPT !.failed = lpc[p]]
    /\ UNCHANGED recent

\* except RedisError: log and return (the request is allowed); `failed` notes
\* the store operation that raised.
FailOpen(p, r) ==
    /\ lpc' = [lpc EXCEPT ![p] = "idle"]
    /\ lreq' = [lreq EXCEPT ![p] = NoLimReq]
    /\ llast' = [Outcome(200, r, 0) EXCEPT !.failed = lpc[p]]
    /\ UNCHANGED recent

\* current = await _redis_client.incr(key)
LimIncr(p, ok) ==
    /\ lpc[p] = "incr"
    /\ LET r0 == lreq[p]
           key == r0.keys[r0.i]
           current == INCR(rateCount[key]).n
           r == [r0 EXCEPT !.current = current, !.k = hits[key] + 1,
                            !.counts = Append(@, current)]
       IN /\ rateCount[key].n < r0.self.times + MaxOver
          /\ IF ~ok
             THEN FailOpen(p, r0) /\ UNCHANGED <<rateCount, hits>>
             ELSE /\ rateCount' = [rateCount EXCEPT ![key] = INCR(@)]
                  /\ hits' = [hits EXCEPT ![key] = @ + 1]
                  /\ IF current = 1
                     THEN /\ lpc' = [lpc EXCEPT ![p] = "expire"]
                          /\ lreq' = [lreq EXCEPT ![p] = r]
                          /\ UNCHANGED <<llast, recent>>
                     ELSE IF limit_exceeded(r.self, current)
                     THEN /\ lpc' = [lpc EXCEPT ![p] = "penalty_get"]
                          /\ lreq' = [lreq EXCEPT ![p] = r]
                          /\ UNCHANGED <<llast, recent>>
                     ELSE Pass(p, r)
    /\ UNCHANGED <<redis_client, penalty, streak>>
    /\ UNCHANGED <<now, users, minted, issued, refreshRec, pc, req, last, rotations,
                   loggedOut, reached, modeVars, famVars, codec>>

\* await _redis_client.expire(key, self.seconds)
LimExpire(p, ok) ==
    /\ lpc[p] = "expire"
    /\ LET r == lreq[p]
           key == r.keys[r.i]
       IN IF ~ok
          THEN FailOpen(p, r) /\ UNCHANGED rateCount
          ELSE /\ rateCount' = [rateCount EXCEPT ![key] = EXPIRE(@, r.self.seconds)]
               /\ IF limit_exceeded(r.self, r.current)
                  THEN /\ lpc' = [lpc EXCEPT ![p] = "penalty_get"]
                       /\ UNCHANGED <<lreq, llast, recent>>
                  ELSE Pass(p, r)
    /\ UNCHANGED <<redis_client, penalty, hits, streak>>
    /\ UNCHANGED <<now, users, minted, issued, refreshRec, pc, req, last, rotations,
                   loggedOut, reached, modeVars, famVars, codec>>

\* penalty_count = await _redis_client.get(penalty_key); int(...) or 0
LimPenaltyGet(p, ok) ==
    /\ lpc[p] = "penalty_get"
    /\ LET r == lreq[p]
           key == r.keys[r.i]
           overlap == \E q \in Callers : /\ q # p /\ lpc[q] = "penalty_setex"
                                       /\ lreq[q].keys[lreq[q].i] = key
       IN IF ~ok
          THEN FailOpen(p, r) /\ UNCHANGED streak
          ELSE /\ lpc' = [lpc EXCEPT ![p] = "penalty_setex"]
               /\ lreq' = [lreq EXCEPT ![p] = [r EXCEPT !.penalty_count = penalty[key].n,
                                                       !.seen = streak[key]]]
               /\ streak' = IF overlap THEN [streak EXCEPT ![key] = -1] ELSE streak
               /\ UNCHANGED <<llast, recent>>
    /\ UNCHANGED <<redis_client, rateCount, penalty, hits>>
    /\ UNCHANGED <<now, users, minted, issued, refreshRec, pc, req, last, rotations,
                   loggedOut, reached, modeVars, famVars, codec>>

\* await _redis_client.setex(penalty_key, self.seconds * 10, penalty_count + 1);
\* raise HTTPException(429, headers={"Retry-After": str(retry_after)})
LimPenaltySetex(p, ok) ==
    /\ lpc[p] = "penalty_setex"
    /\ LET r == lreq[p]
           key == r.keys[r.i]
       IN /\ r.penalty_count < MaxPenalty
          /\ IF ~ok
             THEN FailOpen(p, r) /\ UNCHANGED <<penalty, streak>>
             ELSE /\ penalty' = [penalty EXCEPT ![key] =
                                   [n |-> r.penalty_count + 1,
                                    ttl |-> r.self.seconds * PenaltyWindows]]
                  /\ streak' = [streak EXCEPT ![key] = IF @ < 0 THEN @ ELSE @ + 1]
                  /\ lpc' = [lpc EXCEPT ![p] = "idle"]
                  /\ lreq' = [lreq EXCEPT ![p] = NoLimReq]
                  /\ llast' = Outcome(429, r, retry_after(r.self, r.penalty_count))
                  /\ UNCHANGED recent
    /\ UNCHANGED <<redis_client, rateCount, hits>>
    /\ UNCHANGED <<now, users, minted, issued, refreshRec, pc, req, last, rotations,
                   loggedOut, reached, modeVars, famVars, codec>>

\* Time passes for the rate-limit keys.
LimTick(d) ==
    /\ \E key \in Keys : rateCount[key].volatile \/ penalty[key].n > 0
    /\ rateCount' = [key \in Keys |-> ExpireCount(rateCount[key], d)]
    /\ penalty' = [key \in Keys |-> ExpirePenalty(penalty[key], d)]
    /\ hits' = [key \in Keys |->
                  IF ExpireCount(rateCount[key], d) = NoCount THEN 0 ELSE hits[key]]
    /\ streak' = [key \in Keys |->
                    IF penalty[key].ttl > d THEN streak[key]
                    ELSE IF \E q \in Callers : /\ lpc[q] = "penalty_setex"
                                              /\ lreq[q].keys[lreq[q].i] = key
                         THEN -1 ELSE 0]
    /\ recent' = IF counting /\ 2 * d = auth_rate_limit_seconds
                     THEN [cur |-> 0, prev |-> recent.cur]
                     ELSE NoRecent
    /\ UNCHANGED <<redis_client, lpc, lreq, llast>>
    /\ UNCHANGED <<now, users, minted, issued, refreshRec, pc, req, last, rotations,
                   loggedOut, reached, modeVars, famVars, codec>>

\* ------------------------------------------------------------ token family
\* TokenFamily: the methods of an instance.  self.ttl_seconds, the lifetime of
\* the family:<id> key, is read from settings.token_family_ttl_days; the model
\* keeps the family mapping without a lifetime.
FamilyIds == 1..MaxFamilies
FamJtis == {1, 2}
FamUsers == {1}

\* f"refresh:{jti}:family:{family_id}", as the two segments it is built from.
refresh_family_key(jti, family_id) == [jti |-> jti, family_id |-> family_id]
FamKeys == {refresh_family_key(j, f) : j \in FamJtis, f \in FamilyIds}

\* value = f"{user_id}:{family_id}"
NoFamRec == [value |-> <<0, 0>>, ttl |-> 0]

GlobMatchAny(pattern, key) == key \in FamKeys

\* SCAN ... MATCH pattern over the refresh:<jti>:family:<family_id> keys: a
\* segment of the pattern is '*' (written 0: any segment) or an id (jti and
\* family_id are uuids: no ':' and no glob character inside a segment).
GlobMatch(pattern, key) ==
    /\ pattern.jti = 0 \/ pattern.jti = key.jti
    /\ pattern.family_id = 0 \/ pattern.family_id = key.family_id

revoke_pattern_all(family_id) == [jti |-> 0, family_id |-> 0]

\* pattern = f"refresh:*:family:{family_id}"
revoke_pattern(family_id) == [jti |-> 0, family_id |-> family_id]

\* written, late: the keys stored while the revoke_family call is under way,
\* and those of them stored after the scan had walked past the key.
NoFamReq == [family_id |-> 0, visited |-> {}, written |-> {}, late |-> {},
             before |-> [familyRec |-> [f \in FamilyIds |-> 0],
                         famRefresh |-> [key \in FamKeys |-> NoFamRec]]]

create_family(user_id) ==
    /\ families < MaxFamilies
    /\ LET family_id == families + 1
       IN familyRec' = [familyRec EXCEPT ![family_id] = user_id]
    /\ families' = families + 1
    /\ UNCHANGED <<famRefresh, fpc, freq, tokfam>>
    /\ UNCHANGED <<sessVars, modeVars, limVars, codec>>

store_refresh_token(jti, family_id, user_id, ttl_seconds) ==
    /\ famRefresh' = [famRefresh EXCEPT ![refresh_family_key(jti, family_id)] =
                        [value |-> <<user_id, family_id>>, ttl |-> ttl_seconds]]
    /\ freq' = LET key == refresh_family_key(jti, family_id)
               IN IF fpc = "idle" THEN freq
                  ELSE [freq EXCEPT !.written = @ \cup {key},
                                    !.late = IF key \in freq.visited THEN @ \cup {key}
                                             ELSE @ \ {key}]
    /\ UNCHANGED <<familyRec, families, fpc, tokfam>>
    /\ UNCHANGED <<sessVars, modeVars, limVars, codec>>

\* revoke_family: await self.redis.delete(family_key); cursor = 0
RevokeDelete(family_id) ==
    /\ fpc = "idle"
    /\ familyRec' = [familyRec EXCEPT ![family_id] = 0]
    /\ fpc' = "scan"
    /\ freq' = [family_id |-> family_id, visited |-> {}, written |-> {}, late |-> {},
                before |-> [familyRec |-> familyRec, famRefresh |-> famRefresh]]
    /\ UNCHANGED <<famRefresh, families, tokfam>>
    /\ UNCHANGED <<sessVars, modeVars, limVars, codec>>

\* revoke_family: one round of the loop.  SCAN walks a further part of the key
\* space (chunk) and returns the keys in it that match; they are deleted; the
\* cursor comes back 0 once the whole key space has been walked.
RevokeScan(chunk) ==
    /\ fpc = "scan"
    /\ chunk # {} /\ chunk \subseteq FamKeys \ freq.visited
    /\ LET keys == {k \in chunk : /\ famRefresh[k].ttl > 0
                                  /\ GlobMatch(revoke_pattern(freq.family_id), k)}
           cursor_zero == freq.visited \cup chunk = FamKeys
       IN /\ famRefresh' = [k \in FamKeys |-> IF k \in keys THEN NoFamRec
                                              ELSE famRefresh[k]]
          /\ freq' = [freq EXCEPT !.visited = @ \cup chunk]
          /\ fpc' = IF cursor_zero THEN "done" ELSE "scan"
    /\ UNCHANGED <<familyRec, families, tokfam>>
    /\ UNCHANGED <<sessVars, modeVars, limVars, codec>>

\* revoke_family returns.
RevokeReturn ==
    /\ fpc = "done"
    /\ fpc' = "idle"
    /\ freq' = NoFamReq
    /\ UNCHANGED <<familyRec, famRefresh, families, tokfam>>
    /\ UNCHANGED <<sessVars, modeVars, limVars, codec>>

\* ------------------------------------------------------ family token texts
\* store_refresh_token, get_token_family and delete_token on the texts they
\* build and parse.  An id is a text, written as its sequence of characters;
\* the jti is never parsed and stays a name.
TokJtis == {"j1", "j2"}
TokFamilies == {<<"f">>, <<"g">>}
TokUsers == {<<"7">>, <<"7", ":", "8">>}
TokKeys == {refresh_family_key(j, f) : j \in TokJtis, f \in TokFamilies}
NoTokRec == [value |-> <<>>, ttl |-> 0]
None == <<>>

\* value = f"{user_id}:{family_id}"
family_value(user_id, family_id) == user_id \o <<":">> \o family_id

RECURSIVE FirstColon(_, _)
FirstColon(text, i) ==
    IF i > Len(text) THEN 0
    ELSE IF text[i] = ":" THEN i ELSE FirstColon(text, i + 1)

\* value.split(":", 1)
split_once(value) ==
    LET i == FirstColon(value, 1)
    IN IF i = 0 THEN <<value>>
       ELSE <<SubSeq(value, 1, i - 1), SubSeq(value, i + 1, Len(value))>>

\* parts = value.decode("utf-8").split(":", 1);
\* if len(parts) == 2: return (parts[0], parts[1])
parse_value(value) ==
    LET parts == split_once(value)
    IN IF Len(parts) = 2 THEN <<parts[1], parts[2]>> ELSE None

\* SCAN ... MATCH f"refresh:{jti}:family:*": the keys present under the jti.
token_keys(jti) == {k \in TokKeys : k.jti = jti /\ tokfam.recs[k].ttl > 0}

\* latest: per jti what the last store_refresh_token of the jti was handed
\* (None: never stored, or deleted since).
NoTokFam == [recs |-> [k \in TokKeys |-> NoTokRec],
             latest |-> [j \in TokJtis |-> None],
             op |-> "none", jti |-> "", result |-> None, before |-> [k \in TokKeys |-> NoTokRec]]

\* await self.redis.setex(key, ttl_seconds, value)
store_refresh_token_text(jti, family_id, user_id, ttl_seconds) ==
    /\ tokfam' = [tokfam EXCEPT
                    !.recs[refresh_family_key(jti, family_id)] =
                        [value |-> family_value(user_id, family_id), ttl |-> ttl_seconds],
                    !.latest[jti] = <<user_id, family_id>>,
                    !.op = "store", !.jti = jti, !.result = None,
                    !.before = tokfam.recs]
    /\ UNCHANGED <<familyRec, famRefresh, families, fpc, freq>>
    /\ UNCHANGED <<sessVars, modeVars, limVars, codec>>

\* The scan loop: value = await self.redis.get(keys[0]) for the first batch of
\* keys found (SCAN returns keys in no particular order); None when the whole
\* key space was walked without a value that parses.
get_token_family(jti) ==
    /\ IF token_keys(jti) = {}
       THEN tokfam' = [tokfam EXCEPT !.op = "get", !.jti = jti, !.result = None,
                                     !.before = tokfam.recs]
       ELSE \E k \in token_keys(jti) :
               tokfam' = [tokfam EXCEPT !.op = "get", !.jti = jti,
                                        !.result = parse_value(tokfam.recs[k].value),
                                        !.before = tokfam.recs]
    /\ UNCHANGED <<familyRec, famRefresh, families, fpc, freq>>
    /\ UNCHANGED <<sessVars, modeVars, limVars, codec>>

\* The scan loop: await self.redis.delete(*keys) for every batch.
delete_token(jti) ==
    /\ tokfam' = [tokfam EXCEPT
                    !.recs = [k \in TokKeys |-> IF k \in token_keys(jti) THEN NoTokRec
                                                ELSE tokfam.recs[k]],
                    !.latest[jti] = None,
                    !.op = "delete", !.jti = jti, !.result = None,
                    !.before = tokfam.recs]
    /\ UNCHANGED <<familyRec, famRefresh, families, fpc, freq>>
    /\ UNCHANGED <<sessVars, modeVars, limVars, codec>>

\* ------------------------------------------------------- codec round trip
\* What jwt.decode returns (the payload), NoPayload when decode_token raises.
NoPayload == [sub |-> 0, type |-> "absent", jti |-> 0, iat |-> 0, exp |-> 0]

decode_payload(tok, t) ==
    IF decode_token(tok, t) = "ok"
    THEN [sub |-> tok.sub, type |-> tok.type, jti |-> tok.jti,
          iat |-> tok.iat, exp |-> tok.exp]
    ELSE NoPayload

NoCodec == [kind |-> "none", sub |-> 0, jti |-> 0, decoded |-> "", payload |-> NoPayload]

CodecSubs == {0, 1, 2, 3}

\* token, jti = create_access(sub) / create_refresh(sub); decode_token(token)
RoundTrip(kind, sub) ==
    /\ minted < MaxMints
    /\ LET jti == IF kind = "access" THEN AccessJti(minted + 1)
                  ELSE RefreshJti(minted + 1)
           token == IF kind = "access" THEN create_access(sub, jti, now)
                    ELSE create_refresh(sub, jti, now)
       IN codec' = [kind |-> kind, sub |-> sub, jti |-> jti,
                    decoded |-> decode_token(token, now),
                    payload |-> decode_payload(token, now)]
    /\ minted' = minted + 1
    /\ UNCHANGED <<now, users, issued, refreshRec, pc, req, last, rotations,
                   loggedOut, reached>>
    /\ UNCHANGED <<modeVars, famVars, limVars>>

\* ------------------------------------------------------------ specification
EmptyStore == refreshRec = [j \in JtiIds |-> NoRec]

InitCommon ==
    /\ minted = 0
    /\ issued = {}
    /\ pc = [p \in Procs |-> "idle"]
    /\ req = [p \in Procs |-> NoReq]
    /\ last = NoResponse
    /\ cookie_mode \in BOOLEAN
    /\ rotations = [j \in JtiIds |-> 0]
    /\ loggedOut = {}
    /\ reached = 0
    /\ redis_client = "none"
    /\ rateCount = [key \in Keys |-> NoCount]
    /\ penalty = [key \in Keys |-> NoPenalty]
    /\ lpc = [p \in Callers |-> "idle"]
    /\ lreq = [p \in Callers |-> NoLimReq]
    /\ llast = NoOutcome
    /\ hits = [key \in Keys |-> 0]
    /\ streak = [key \in Keys |-> 0]
    /\ recent = NoRecent
    /\ familyRec = [f \in FamilyIds |-> 0]
    /\ famRefresh = [key \in FamKeys |-> NoFamRec]
    /\ families = 0
    /\ fpc = "idle"
    /\ freq = NoFamReq
    /\ tokfam = NoTokFam
    /\ codec = NoCodec

\* config.py default of AUTH_REFRESH_STRATEGY
InitSettings == auth_refresh_strategy = "nuclear"

Init == InitCommon /\ InitSettings /\ EmptyStore /\ users = [e \in Emails |-> NoUser] /\ now = 0 /\ faulty = FALSE /\ probe = NoCookie /\ counting = FALSE
InitFaulty ==
    InitCommon /\ InitSettings /\ EmptyStore /\ users = [e \in Emails |-> NoUser] /\ now = 0 /\ faulty = TRUE /\ probe = NoCookie /\ counting = FALSE

Next ==
    \/ \E e \in Emails, pw \in Chosen : register(e, pw)
    \/ \E e \in Emails, pw \in Passwords, ok \in StoreOutcomes : login(e, pw, ok)
    \/ \E p \in Procs, c \in Cookies, ok \in StoreOutcomes : RefreshGet(p, c, ok)
    \/ \E p \in Procs, ok \in StoreOutcomes : RefreshDelete(p, ok)
    \/ \E p \in Procs, ok \in StoreOutcomes : RefreshSetex(p, ok)
    \/ \E c \in Cookies, ok \in StoreOutcomes : logout(c, ok)
    \/ \E t \in Clock : Tick(t)

Spec == Init /\ [][Next]_vars
SpecFaulty == InitFaulty /\ [][Next]_vars

\* Token handling alone: the token under test, the instant and the health of
\* the store are drawn at the start; the store holds no record.
InitToken ==
    /\ InitCommon
    /\ InitSettings
    /\ EmptyStore
    /\ cookie_mode = TRUE
    /\ users \in {[e \in Emails |-> NoUser],
                  [e \in Emails |-> [id |-> 1, password_hash |-> hash_password("pw1")]]}
    /\ now \in Clock
    /\ faulty \in BOOLEAN
    /\ counting = FALSE
    /\ probe \in Foreign \cup {NoCookie, Garbage}

NextToken ==
    \/ VerifyAccess(probe)
    \/ me(probe)
    \/ \E p \in Procs, ok \in StoreOutcomes : RefreshGet(p, probe, ok)
    \/ \E ok \in StoreOutcomes : logout(probe, ok)

SpecToken == InitToken /\ [][NextToken]_vars

\* The auth endpoints as FastAPI serves them, with the requests counted.
InitGate ==
    InitCommon /\ InitSettings /\ EmptyStore /\ users = [e \in Emails |-> NoUser] /\ now = 0 /\ faulty = FALSE /\ probe = NoCookie /\ counting = TRUE

NextGate ==
    \/ \E e \in Emails, pw \in Chosen : register(e, pw)
    \/ \E e \in Emails, pw \in Passwords, ok \in StoreOutcomes : login(e, pw, ok)
    \/ \E t \in Clock : Tick(t)

SpecGate == InitGate /\ [][NextGate]_vars

\* RateLimiter.__call__ as a dependency that is called on every request.
NextLimiter ==
    \/ init_rate_limiter
    \/ \E p \in Callers, request \in Requests : LimCall(p, get_auth_limiter, request)
    \/ \E p \in Callers, ok \in StoreOutcomes : LimIncr(p, ok)
    \/ \E p \in Callers, ok \in StoreOutcomes : LimExpire(p, ok)
    \/ \E p \in Callers, ok \in StoreOutcomes : LimPenaltyGet(p, ok)
    \/ \E p \in Callers, ok \in StoreOutcomes : LimPenaltySetex(p, ok)
    \/ \E d \in {auth_rate_limit_seconds, auth_rate_limit_seconds * PenaltyWindows} : LimTick(d)

InitLimiter == Init /\ cookie_mode = TRUE

SpecLimiter == InitLimiter /\ [][NextLimiter]_vars

\* The same with a store whose operations may raise RedisError.
InitLimiterFaulty == InitFaulty /\ cookie_mode = TRUE

SpecLimiterFaulty == InitLimiterFaulty /\ [][NextLimiter]_vars

\* The refresh path in cookie mode with a store whose operations may raise.
InitOutage == InitFaulty /\ cookie_mode = TRUE

NextOutage ==
    \/ \E e \in Emails, pw \in Chosen : register(e, pw)
    \/ \E e \in Emails, pw \in Passwords, ok \in StoreOutcomes : login(e, pw, ok)
    \/ \E p \in Procs, c \in Cookies, ok \in StoreOutcomes : RefreshGet(p, c, ok)
    \/ \E p \in Procs, ok \in StoreOutcomes : RefreshDelete(p, ok)
    \/ \E p \in Procs, ok \in StoreOutcomes : RefreshSetex(p, ok)
    \/ \E t \in Clock : Tick(t)

SpecOutage == InitOutage /\ [][NextOutage]_vars

\* TokenFamily with one caller at a time: nothing writes the store while a
\* revoke_family call is under way.
FamIdle == fpc = "idle"

InitFamily ==
    /\ InitCommon /\ EmptyStore /\ users = [e \in Emails |-> NoUser] /\ now = 0
    /\ faulty = FALSE /\ probe = NoCookie /\ counting = FALSE
    /\ cookie_mode = TRUE
    /\ auth_refresh_strategy = "family"

NextFamily ==
    \/ \E u \in FamUsers : FamIdle /\ create_family(u)
    \/ \E j \in FamJtis, f \in FamilyIds, u \in FamUsers :
          FamIdle /\ store_refresh_token(j, f, u, _REFRESH_TTL)
    \/ \E f \in FamilyIds : RevokeDelete(f)
    \/ \E chunk \in SUBSET FamKeys : RevokeScan(chunk)
    \/ RevokeReturn

SpecFamily == InitFamily /\ [][NextFamily]_vars

\* TokenFamily with a rotation racing a revocation: store_refresh_token may
\* run between any two store calls of revoke_family.
NextFamilyRace ==
    \/ \E u \in FamUsers : FamIdle /\ create_family(u)
    \/ \E j \in FamJtis, f \in FamilyIds, u \in FamUsers :
          store_refresh_token(j, f, u, _REFRESH_TTL)
    \/ \E f \in FamilyIds : RevokeDelete(f)
    \/ \E chunk \in SUBSET FamKeys : RevokeScan(chunk)
    \/ RevokeReturn

SpecFamilyRace == InitFamily /\ [][NextFamilyRace]_vars

\* TokenFamily's token records: store, look up and delete, one call at a time.
NextFamilyToken ==
    \/ \E j \in TokJtis, f \in TokFamilies, u \in TokUsers :
          store_refresh_token_text(j, f, u, _REFRESH_TTL)
    \/ \E j \in TokJtis : get_token_family(j)
    \/ \E j \in TokJtis : delete_token(j)

SpecFamilyToken == InitFamily /\ [][NextFamilyToken]_vars

\* The reuse check alone: the token under test, the instant and the record
\* the store holds under the token's jti are drawn at the start.
StoredSubs == {1, 2}

InitReuse ==
    /\ InitCommon
    /\ InitSettings
    /\ cookie_mode = TRUE
    /\ users = [e \in Emails |-> NoUser]
    /\ now \in Clock
    /\ faulty = FALSE
    /\ counting = FALSE
    /\ probe \in Foreign \cup {NoCookie, Garbage}
    /\ \E rec \in {NoRec} \cup {[sub |-> u, ttl |-> _REFRESH_TTL] : u \in StoredSubs} :
          refreshRec = [j \in JtiIds |-> IF j = ForeignJti THEN rec ELSE NoRec]

NextReuse ==
    \/ \E p \in Procs : RefreshGet(p, probe, TRUE)
    \/ \E p \in Procs : RefreshDelete(p, TRUE)
    \/ \E p \in Procs : RefreshSetex(p, TRUE)

SpecReuse == InitReuse /\ [][NextReuse]_vars

\* The auth endpoints, one request at a time, together with a protected
\* endpoint that is handed the access tokens clients hold.
AccessTokens == {tok \in issued : tok.type = "access"}

NextSession ==
    \/ \E e \in Emails, pw \in Chosen : register(e, pw)
    \/ \E e \in Emails, pw \in Passwords, ok \in StoreOutcomes : login(e, pw, ok)
    \/ \E c \in Cookies, ok \in StoreOutcomes : RefreshGet(1, c, ok)
    \/ \E p \in Procs, ok \in StoreOutcomes : RefreshDelete(p, ok)
    \/ \E p \in Procs, ok \in StoreOutcomes : RefreshSetex(p, ok)
    \/ \E c \in Cookies, ok \in StoreOutcomes : logout(c, ok)
    \/ \E t \in Clock : Tick(t)
    \/ \E tok \in AccessTokens : VerifyAccess(tok)

SpecSession == Init /\ [][NextSession]_vars

\* The token codec alone: tokens are created for drawn subjects at the
\* instants of Clock and decoded at once.
NextCodec ==
    \/ \E sub \in CodecSubs : RoundTrip("access", sub)
    \/ \E sub \in CodecSubs : RoundTrip("refresh", sub)
    \/ \E t \in Clock : Tick(t)

SpecCodec == Init /\ [][NextCodec]_vars

\* RateLimiter.__call__, one request at a time, observed at half-window
\* steps, the requests it lets through being counted.
InitWindow ==
    /\ InitCommon /\ InitSettings /\ EmptyStore
    /\ users = [e \in Emails |-> NoUser] /\ now = 0
    /\ faulty = FALSE /\ probe = NoCookie
    /\ cookie_mode = TRUE
    /\ counting = TRUE

NextWindow ==
    \/ init_rate_limiter
    \/ \E request \in Requests : LimCall(1, get_auth_limiter, request)
    \/ \E p \in Callers, ok \in StoreOutcomes : LimIncr(p, ok)
    \/ \E p \in Callers, ok \in StoreOutcomes : LimExpire(p, ok)
    \/ \E p \in Callers, ok \in StoreOutcomes : LimPenaltyGet(p, ok)
    \/ \E p \in Callers, ok \in StoreOutcomes : LimPenaltySetex(p, ok)
    \/ \E d \in {auth_rate_limit_seconds \div 2, auth_rate_limit_seconds} : LimTick(d)

SpecWindow == InitWindow /\ [][NextWindow]_vars

\* The auth endpoints, one request at a time, with
\* AUTH_REFRESH_STRATEGY=family and cookie mode.
InitFamilyStrategy ==
    /\ InitCommon /\ EmptyStore
    /\ users = [e \in Emails |-> NoUser] /\ now = 0
    /\ faulty = FALSE /\ probe = NoCookie /\ counting = FALSE
    /\ cookie_mode = TRUE
    /\ auth_refresh_strategy = "family"

SpecFamilyStrategy == InitFamilyStrategy /\ [][NextSession]_vars

\* RateLimiter.__call__ of the refresh limiter (scope "both"), one request at a
\* time from two addresses, with and without a user.
InitBoth == Init /\ cookie_mode = TRUE

NextBoth ==
    \/ init_rate_limiter
    \/ \E request \in RefreshRequests : LimCall(1, get_refresh_limiter, request)
    \/ \E p \in Callers : LimIncr(p, TRUE)
    \/ \E p \in Callers : LimExpire(p, TRUE)
    \/ \E p \in Callers : LimPenaltyGet(p, TRUE)
    \/ \E p \in Callers : LimPenaltySetex(p, TRUE)
    \/ LimTick(refresh_rate_limit_seconds * PenaltyWindows)

SpecBoth == InitBoth /\ [][NextBoth]_vars

\* ------------------------------------------------------------------ claims

\* C1: of the refresh requests that present the same live refresh token, also
\* concurrently, at most one completes with 200 and a new pair; every other one
\* is rejected.
C1_OneRefreshPerToken == \A j \in JtiIds : rotations[j] <= 1

\* C2: once a refresh presenting a token has succeeded, every later refresh that
\* presents the same token, its expiry not yet reached, is answered 401
\* "Token already used or revoked".
C2_RotatedTokenRejected ==
    (last.op = "refresh" /\ last.late)
        => (last.status = 401 /\ last.detail = "Token already used or revoked")

C2_Witness ==
    /\ last.op = "refresh" /\ last.late
    /\ last.status = 401 /\ last.detail = "Token already used or revoked"

\* C3: a refresh token handed out by a 200 response of login or refresh has its
\* record in the store with its own subject for as long as it is unexpired,
\* not logged out and not yet presented; the refresh that presents it then
\* succeeds, so rotations chain.
C3_NewTokenAccepted ==
    /\ \A tok \in issued :
          ( /\ cookie_mode /\ tok.type = "refresh" /\ tok.exp > now
            /\ tok.jti \notin loggedOut /\ rotations[tok.jti] = 0
            /\ ~InFlight(tok.jti) )
          => (refreshRec[tok.jti].ttl > 0 /\ refreshRec[tok.jti].sub = tok.sub)
    /\ (last.op = "refresh" /\ last.fresh) => last.status = 200

C3_Witness ==
    /\ last.op = "refresh" /\ last.fresh /\ last.status = 200
    /\ last.refresh = RefreshJti(3)
    /\ rotations[RefreshJti(1)] = 1 /\ rotations[RefreshJti(2)] = 1

\* C4: every login that answers 200 has stored the record of the refresh token
\* it returns, whichever way the deployment is configured.
C4_LoginStoresRecord ==
    [][\A e \in Emails, pw \in Passwords :
          (login(e, pw, TRUE) /\ last'.status = 200)
              => refreshRec'[last'.refresh].ttl > 0]_vars

\* C5: the record of a refresh token that a logout revoked stays absent, and
\* every later refresh presenting that token is answered 401.
C5_LogoutRevokes ==
    /\ \A j \in loggedOut : refreshRec[j] = NoRec
    /\ (last.op = "refresh" /\ last.dead) => last.status = 401

C5_Witness ==
    /\ last.op = "refresh" /\ last.dead
    /\ last.status = 401 /\ last.detail = "Token already used or revoked"

\* C6: logout answers 200 {"ok": true} and clears the refresh cookie whatever
\* the cookie holds and whether or not the store delete succeeds.
C6_LogoutAlwaysOk ==
    last.op = "logout"
        => (last.status = 200 /\ last.detail = "ok" /\ last.cookie = "clear")

C6_Witness ==
    last.op = "logout" /\ last.why = "delete failed" /\ last.status = 200

\* C7 (as written): refresh answers 401 to every decodable token whose type is
\* not "refresh", and verify_access_token answers 401 "Wrong token type" to
\* every decodable token whose type is not "access", a token without a type
\* claim included.
C7_WrongTypeRejected ==
    /\ (last.op = "refresh" /\ probe.type # "refresh") => last.status = 401
    /\ (last.op = "verify" /\ decode_token(probe, now) = "ok" /\ probe.type # "access")
          => (last.status = 401 /\ last.detail = "Wrong token type")

\* C7 (amended): refresh answers 401 to every token whose type is not
\* "refresh"; verify_access_token answers 401 "Wrong token type" to every
\* decodable token that carries a type claim other than "access", and accepts
\* a decodable token with a subject and no type claim.
C7_PresentWrongTypeRejected ==
    /\ (last.op = "refresh" /\ probe.type # "refresh") => last.status = 401
    /\ (last.op = "verify" /\ decode_token(probe, now) = "ok"
          /\ probe.type \notin {"access", "absent"})
          => (last.status = 401 /\ last.detail = "Wrong token type")
    /\ (last.op = "verify" /\ decode_token(probe, now) = "ok"
          /\ probe.type = "absent" /\ probe.sub # 0)
          => last.status = 200

C7_Witness ==
    /\ last.op = "verify" /\ decode_token(probe, now) = "ok"
    /\ probe.type = "absent" /\ last.status = 200

\* C8: a login request that is the 6th or later from one IP within one window
\* of 60 seconds is answered 429 and does not reach credential verification.
C8_SixthLoginRejected ==
    (last.op = "login" /\ reached > auth_rate_limit_times) => last.status = 429

\* C9: counting from the request that creates the bucket counter, the k-th
\* request is let through exactly when k <= N and is otherwise rejected with
\* 429 and a retry hint; the counter lives at most one window, after which the
\* next request is the first of a new window and is let through.
C9_WindowLimit ==
    /\ llast.k > 0 => /\ llast.status \in {200, 429}
                      /\ llast.status = 200 <=> llast.k <= auth_rate_limit_times
                      /\ llast.status = 429 => llast.retry_after > 0
    /\ \A key \in Keys :
          rateCount[key].volatile
              => (rateCount[key].ttl > 0 /\ rateCount[key].ttl <= auth_rate_limit_seconds)

C9_Witness ==
    /\ llast.status = 200 /\ llast.k = 1
    /\ \E key \in Keys : penalty[key].n > 0 /\ hits[key] = 1

\* C10: the retry hint of a rejection is W * min(2^p, 8) for the penalty count
\* p read from the store, never above 8 * W; rejections that follow one
\* another within the penalty lifetime read p = 0, 1, 2, ... and so get
\* W, 2W, 4W, 8W, 8W.
C10_BackoffHint ==
    llast.status = 429 =>
        /\ llast.retry_after =
              auth_rate_limit_seconds *
                 (IF llast.p = 0 THEN 1 ELSE IF llast.p = 1 THEN 2
                  ELSE IF llast.p = 2 THEN 4 ELSE 8)
        /\ llast.retry_after <= 8 * auth_rate_limit_seconds
        /\ llast.seen >= 0 => llast.p = llast.seen

C10_Witness ==
    /\ llast.status = 429 /\ llast.seen = 4
    /\ llast.retry_after = 8 * auth_rate_limit_seconds

\* C11: a limiter call made while the client is not initialised, or in which
\* incr, expire, the penalty read or the penalty write raises a store error,
\* lets the request through (no 429), also when the counter is above the limit.
C11_FailOpen == llast.failed # "" => llast.status = 200

C11_Witness ==
    /\ llast.failed \in {"penalty_get", "penalty_setex"} /\ llast.status = 200
    /\ \E key \in Keys : rateCount[key].n > auth_rate_limit_times

\* C12: a refresh in which the read of the old record, its delete or the
\* write of the new record raises ends in an error, returns no refresh token
\* or cookie, and hands no token to the caller.
C12_RefreshFailsClosed ==
    [][(/\ last' # last /\ last'.op = "refresh"
        /\ last'.why \in {"get failed", "delete failed", "setex failed"})
          => /\ last'.status = 500
             /\ last'.refresh = 0 /\ last'.cookie = "keep" /\ ~last'.in_body
             /\ issued' = issued]_vars

C12_Witness ==
    last.op = "refresh" /\ last.why = "setex failed" /\ last.status = 500

C14_SubjectMustMatch ==
    /\ (last.op = "refresh" /\ last.status = 200)
          => (last.stored_sub # 0 /\ last.stored_sub = probe.sub)
    /\ (last.op = "refresh" /\ last.stored_sub # 0 /\ last.stored_sub # probe.sub)
          => /\ last.status = 401 /\ last.detail = "Invalid token"
             /\ last.refresh = 0 /\ last.cookie = "keep"
             /\ issued = {} /\ minted = 0

C14_Witness ==
    /\ last.op = "refresh" /\ last.stored_sub = 2 /\ probe.sub = 1
    /\ last.status = 401 /\ last.detail = "Invalid token"

\* C15: verify_access_token reads nothing from the store: every access token a
\* client holds is accepted in every state in which its exp has not passed,
\* whatever has happened to the records since (logout, rotation, expiry), and
\* a protected endpoint answers 200 as long as no access token has expired.
C15_AccessStateless ==
    /\ \A tok \in AccessTokens : tok.exp > now => verify_access_token(tok, now) = "ok"
    /\ (last.op = "verify" /\ \A tok \in AccessTokens : tok.exp > now)
          => last.status = 200

C15_Witness ==
    /\ last.op = "verify" /\ last.status = 200
    /\ minted = 1 /\ loggedOut = {RefreshJti(1)}
    /\ \A j \in JtiIds : refreshRec[j] = NoRec

\* C16: decoding the token that create_access(s) returns yields sub = s,
\* type "access", the jti returned with the token, and exp > iat; likewise
\* create_refresh(s) with type "refresh".
C16_TokenRoundTrip ==
    codec.kind # "none" =>
        /\ codec.decoded = "ok"
        /\ codec.payload.sub = codec.sub
        /\ codec.payload.type = codec.kind
        /\ codec.payload.jti = codec.jti
        /\ codec.payload.exp > codec.payload.iat

C16_Witness ==
    /\ codec.kind = "refresh" /\ codec.sub = 2 /\ codec.payload.type = "refresh"
    /\ codec.payload.sub = 2 /\ codec.payload.iat = _ACCESS_TTL

\* C17: for one identity and one path, the requests let through within any
\* interval of length W number at most N (here: those of this instant and of
\* half a window ago).
C17_SlidingWindow == recent.cur + recent.prev <= auth_rate_limit_times

\* C18: with scope 'both' the IP bucket and the user bucket are counted
\* separately; a request is rejected with 429 exactly when the post-increment
\* count of a bucket evaluated for it exceeds the limit, and is let through only
\* when every bucket that applies to it (the IP bucket, and the user bucket when
\* the request carries a user) was incremented and none exceeded the limit.
C18_BothBuckets ==
    (llast.status \in {200, 429} /\ llast.failed = "") =>
        /\ (llast.status = 429) <=>
               \E i \in 1..Len(llast.counts) :
                   llast.counts[i] > get_refresh_limiter.times
        /\ llast.status = 200 =>
               /\ Len(llast.counts) = IF llast.user = "" THEN 1 ELSE 2
               /\ \A i \in 1..Len(llast.counts) :
                      llast.counts[i] <= get_refresh_limiter.times
        /\ llast.status = 429 =>
               /\ llast.bucket = (IF Len(llast.counts) = 1 THEN "ip" ELSE "user")
               /\ \A i \in 1..(Len(llast.counts) - 1) :
                      llast.counts[i] <= get_refresh_limiter.times

C18_Witness ==
    /\ llast.status = 429 /\ llast.failed = "" /\ llast.bucket = "user"
    /\ Len(llast.counts) = 2
    /\ llast.counts[1] <= get_refresh_limiter.times
    /\ llast.counts[2] > get_refresh_limiter.times

\* C19: the refresh limiter rejects on the IP bucket only above 60 requests per
\* 60 seconds and on the user bucket only above 10 requests per 60 seconds.
C19_RefreshLimits ==
    /\ get_refresh_limiter.seconds = 60
    /\ (llast.status = 429 /\ llast.failed = "") =>
           llast.counts[Len(llast.counts)] >
               (IF llast.bucket = "ip" THEN refresh_ip_bucket_times
                                       ELSE refresh_user_rate_limit_times)

\* C20: under the family strategy every live refresh record, written by login
\* or by a rotation, belongs to a family: a family_id mapped to the record's
\* subject exists in the store.
C20_FamilyPerSession ==
    auth_refresh_strategy = "family" =>
        \A j \in JtiIds :
            refreshRec[j].ttl > 0 =>
                \E f \in FamilyIds : familyRec[f] = refreshRec[j].sub

C22_PenaltyCountsRejections ==
    [][\A p \in Callers :
          (/\ lpc[p] = "penalty_setex" /\ lpc'[p] = "idle"
           /\ llast'.status = 429 /\ llast'.failed = ""
           /\ penalty[lreq[p].keys[lreq[p].i]].n >= lreq[p].penalty_count)
          => penalty'[lreq[p].keys[lreq[p].i]].n
                = penalty[lreq[p].keys[lreq[p].i]].n + 1]_vars

\* C23: every request counter in the store carries an expiry of at most W
\* seconds, except while the call that created it is between its INCR and its
\* EXPIRE; in particular no counter is left without expiry after a store
\* failure.
C23_CounterHasExpiry ==
    \A key \in Keys :
        rateCount[key].n > 0 =>
            \/ rateCount[key].volatile /\ rateCount[key].ttl <= auth_rate_limit_seconds
            \/ \E p \in Callers : /\ lpc[p] = "expire"
                                   /\ lreq[p].keys[lreq[p].i] = key

\* C24: a refresh rejected as reuse (no record under the presented jti) makes
\* no change to the store under the nuclear strategy: every refresh record,
\* those of the subject's other sessions and the newest token of the same
\* chain included, is after the rejection what it was before.
C24_ReuseLeavesStore ==
    [][(/\ auth_refresh_strategy = "nuclear"
        /\ now' = now /\ pc' = pc
        /\ last'.op = "refresh" /\ last'.status = 401
        /\ last'.detail = "Token already used or revoked")
       => refreshRec' = refreshRec]_vars

C24_Witness ==
    /\ auth_refresh_strategy = "nuclear"
    /\ last.op = "refresh" /\ last.status = 401
    /\ last.detail = "Token already used or revoked" /\ last.late
    /\ \A p \in Procs : pc[p] = "idle"
    /\ Cardinality({j \in JtiIds : refreshRec[j].ttl > 0}) = 2

\* C25: get_token_family(jti) returns exactly the (user_id, family_id) that the
\* last store_refresh_token of the jti was handed, whatever the ids, and None
\* once delete_token(jti) has run; delete_token leaves the records of other
\* jtis as they were.
C25_FamilyTokenRoundTrip ==
    /\ tokfam.op = "get" => tokfam.result = tokfam.latest[tokfam.jti]
    /\ tokfam.op = "delete" =>
          \A k \in TokKeys :
              tokfam.recs[k] = IF k.jti = tokfam.jti THEN NoTokRec ELSE tokfam.before[k]

\* C26: the record of a refresh jti, written by login or by a rotation, is
\* given a time-to-live equal to the lifetime exp - iat of its token, which is
\* also the max-age of the refresh cookie.
C26_RecordTtlIsTokenLifetime ==
    [][\A j \in JtiIds :
          (refreshRec[j].ttl = 0 /\ refreshRec'[j].ttl > 0) =>
              \E tok \in issued' :
                  /\ tok.jti = j /\ tok.type = "refresh"
                  /\ refreshRec'[j].ttl = tok.exp - tok.iat
                  /\ set_refresh_cookie_max_age = tok.exp - tok.iat]_vars

C26_Witness ==
    /\ now = _ACCESS_TTL
    /\ \E a, b \in issued :
          /\ a.type = "refresh" /\ b.type = "refresh"
          /\ a.iat = 0 /\ b.iat = now /\ rotations[a.jti] = 0 /\ rotations[b.jti] = 0
          /\ refreshRec[a.jti].ttl > 0 /\ refreshRec[b.jti].ttl = b.exp - b.iat
          /\ \E c \in issued : c.type = "refresh" /\ rotations[c.jti] > 0
    /\ last.op = "refresh" /\ last.status = 200

\* C27: a refresh that finds a record under the presented jti whose subject
\* differs from the token's sub is rejected and leaves that record in the store
\* as it was, so the same jti presented again meets the same record.
C27_MismatchKeepsRecord ==
    (last.op = "refresh" /\ last.stored_sub # 0 /\ last.stored_sub # probe.sub) =>
        /\ last.status = 401
        /\ refreshRec[probe.jti] = [sub |-> last.stored_sub, ttl |-> _REFRESH_TTL]
        /\ \A p \in Procs : pc[p] = "idle"

C27_Witness ==
    /\ last.op = "refresh" /\ last.status = 401 /\ last.detail = "Invalid token"
    /\ probe.sub = 1 /\ probe.jti = ForeignJti
    /\ refreshRec[ForeignJti] = [sub |-> 2, ttl |-> _REFRESH_TTL]
    /\ last.stored_sub = 2

\* C28: refresh does not roll back: when the write of the new record raises
\* after the old record was deleted, the store is left as it is, with no record
\* under the presented jti and none under the new jti, and the caller gets an
\* error and no token.
C28_NoRollback ==
    [][\A p \in Procs :
          (pc[p] = "setex" /\ pc'[p] = "idle" /\ last'.why = "setex failed") =>
              /\ refreshRec'[req[p].cookie.jti] = NoRec
              /\ refreshRec'[req[p].refresh_token.jti] = NoRec
              /\ refreshRec' = refreshRec
              /\ last'.status = 500 /\ last'.refresh = 0 /\ last'.cookie = "keep"
              /\ issued' = issued]_vars

C28_Witness ==
    /\ last.op = "refresh" /\ last.why = "setex failed" /\ last.fresh
    /\ minted = 2
    /\ \A p \in Procs : pc[p] = "idle"
    /\ \A j \in JtiIds : refreshRec[j] = NoRec

\* C29: the penalty counter changes only the advertised Retry-After: a request
\* is rejected exactly when the request counter, after counting it, is above
\* the limit, whatever the penalty counter holds, so a client that was told to
\* wait 8 windows is let through as soon as the request counter has expired.
C29_PenaltyOnlyAdvertised ==
    (llast.status \in {200, 429} /\ llast.failed = "" /\ llast.counts # <<>>) =>
        /\ (llast.status = 429) <=>
               llast.counts[Len(llast.counts)] > get_auth_limiter.times
        /\ llast.status = 200 => llast.retry_after = 0

C29_Witness ==
    /\ llast.status = 200 /\ llast.failed = "" /\ llast.counts = <<1>>
    /\ \E key \in Keys :
          /\ penalty[key].n >= 4 /\ penalty[key].ttl > auth_rate_limit_seconds
          /\ retry_after(get_auth_limiter, penalty[key].n - 1)
                = MaxMultiplier * auth_rate_limit_seconds
          /\ rateCount[key].n = 1

\* C30: once a logout presenting refresh token J has deleted J's record, no
\* refresh writes a record descended from J, also when the refresh presenting
\* J had read the record before the logout and writes after it.
C30_LogoutEndsSession ==
    [][\A p \in Procs :
          (pc[p] = "setex" /\ pc'[p] = "idle" /\ req[p].cookie.jti \in loggedOut)
              => refreshRec'[req[p].refresh_token.jti] = NoRec]_vars
====
